---------------------------- MODULE Spec2Model ----------------------------
(***************************************************************************)
(* A model of siddk/robo-lambda: the teleoperation loop (teleoperate.py),  *)
(* the telemetry decoder listen2robot / get_state (all three files), the   *)
(* command encoder send2robot, the replay loop (replay.py) and the         *)
(* demonstration recorder (record.py).                                     *)
(*                                                                         *)
(* Each program is a specification of its own over its own variables; the  *)
(* variables of the other programs stay at their idle values.              *)
(*                                                                         *)
(* Time is counted in ticks of 50 ms: 0.25 s is 5 ticks, 0.1 s is 2 ticks. *)
(***************************************************************************)
EXTENDS Integers, Sequences, FiniteSets, TLC

VARIABLES
    \* ---- teleoperate.py: main ----
    now,            \* time.time(), in ticks
    aBtn,           \* gamepad button 0 (mode) as the hardware holds it
    stopBtn,        \* gamepad button 7 (stop) as the hardware holds it
    toggle,         \* main: toggle
    pressed,        \* main: pressed
    pressed_time,   \* main: pressed_time
    sent,           \* the twists of the commands written to the socket, in order
    tpc,            \* "run": inside while True; "done": main has returned
    exit,           \* how the loop ended
    tconn,          \* main: conn, the socket of connect2robot: "open" or "closed"
    last,           \* what the last loop cycle read and did
    nEdges,         \* rising edges of the mode button so far
    edgeTime,       \* time of the latest rising edge
    spaced,         \* all rising edges so far are >= 0.25 s apart
    seen,           \* the current press was polled by a cycle
    seenAll,        \* every finished press was polled by a cycle
    \* ---- listen2robot on one received buffer ----
    state_length,   \* listen2robot: state_length
    buf,            \* the bytes conn.recv returned
    res,            \* what listen2robot returned for buf
    dpc,            \* "recv": about to call conn.recv; "parse": about to decode
    \* ---- get_state on a stream of telemetry frames ----
    wire,           \* the bytes the controller has sent that no recv has returned
    pos,            \* how many bytes of the stream the recv calls have returned
    gpc,            \* "idle": outside get_state; "read": inside its while loop
    callPos,        \* pos when the running get_state call was made
    got,            \* what each finished get_state call returned, in order
    peer,           \* the controller's end of the connection: "open" or "closed"
    eof,            \* a recv has returned the empty buffer of a closed peer
    \* ---- replay.py: replay ----
    states,         \* replay: states = demonstrations[args.index]
    mode,           \* args.mode
    idx,            \* replay: idx, the steps played so far
    rlog,           \* what replay did on the connection and the clock, in order
    rconn,          \* the connection: "open" or "closed"
    rpc,            \* "loop", "done", "aborted" (AssertionError), "crashed"
    \* ---- send2robot on one joint-velocity vector ----
    sq,             \* send2robot: the argument qdot
    sout,           \* what the call computed and wrote
    spc,            \* "call": about to run send2robot; "sent": it has returned
    \* ---- record.py: record, record mode ----
    kpc,            \* where record is: "start", "spawned", "accepting",
                    \* "outer", "recording", "done", "crashed"
    clock,          \* time.time(), in ticks
    demonstrations, \* record: demonstrations
    demo,           \* record: demo
    start_time,     \* record: start_time
    conn,           \* record: conn, the accepted connection and whether it is open
    lf_process,     \* record: lf_process, the controller process and whether it runs
    listening,      \* a socket of connect2robot is bound and listening
    ctrl,           \* the controller's side: "none", "started", "connected", "refused"
    store,          \* what pickle.dump has written, in order
    elog,           \* what record did to socket and processes, in order
    sealed,         \* the demo in progress at each stop event, in order
    klast           \* what the last step of record read and did

teleVars == <<now, aBtn, stopBtn, toggle, pressed, pressed_time, sent, tpc,
              exit, tconn, last, nEdges, edgeTime, spaced, seen, seenAll>>

decVars == <<state_length, buf, res, dpc>>

strVars == <<wire, pos, gpc, callPos, got, peer, eof>>

repVars == <<states, mode, idx, rlog, rconn, rpc>>

sndVars == <<sq, sout, spc>>

recVars == <<kpc, clock, demonstrations, demo, start_time, conn, lf_process,
             listening, ctrl, store, elog, sealed, klast>>

vars == <<teleVars, decVars, strVars, repVars, sndVars, recVars>>

\* what the actions of one program leave alone
notTele == <<decVars, strVars, repVars, sndVars, recVars>>

notDec == <<teleVars, strVars, repVars, sndVars, recVars>>

notStr == <<teleVars, decVars, repVars, sndVars, recVars>>

notRep == <<teleVars, decVars, strVars, sndVars, recVars>>

notSnd == <<teleVars, decVars, strVars, repVars, recVars>>

notRec == <<teleVars, decVars, strVars, repVars, sndVars>>

(***************************************************************************)
(* Bounds of the model.                                                    *)
(***************************************************************************)
MaxTime == 8
MaxEdges == 2
MaxSent == 2
MaxGap == 1
MaxBuf == 7
MaxFrames == 3
MaxSteps == 2
MaxSpeed == 2
MaxRecTime == 5
MaxWait == 2
MaxDemos == 2
MaxResets == 1
Decimals == 1

(***************************************************************************)
(* teleoperate.py                                                          *)
(***************************************************************************)
END_EFF_DIM == 6

\* 0.25 s, the literal of line 149, in ticks
DebounceWindow == 5

\* pressed_time = None (line 127)
NoTime == -1

\* JoystickControl.input: the two axes after the dead band (|z| < 0.1 -> 0.0)
ZVals == {<<0, 0>>, <<1, 2>>}

\* lines 155-157: xdot = zeros(6); xdot[toggle] = z[0]; xdot[toggle + 1] = z[1]
Twist(tg, z) ==
    [i \in 0..(END_EFF_DIM - 1) |->
        IF i = tg THEN z[1] ELSE IF i = tg + 1 THEN z[2] ELSE 0]

\* ModeBranch advancing the offset by one axis instead of one pair of axes.
ModeBranchStepOne(tg, pr, pt, t1, t2) ==
    LET fresh == ~pr
        pr1 == IF fresh THEN TRUE ELSE pr
        pt1 == IF fresh THEN t1 ELSE pt
        tg1 == IF fresh THEN (tg + 1) % END_EFF_DIM ELSE tg
    IN  [toggle |-> tg1,
         pressed |-> IF t2 - pt1 > DebounceWindow THEN FALSE ELSE pr1,
         pressed_time |-> pt1]

\* ModeBranch without the latch: every poll that reads the button advances.
ModeBranchNoLatch(tg, pr, pt, t1, t2) ==
    [toggle |-> (tg + 2) % END_EFF_DIM,
     pressed |-> IF t2 - t1 > DebounceWindow THEN FALSE ELSE TRUE,
     pressed_time |-> t1]

\* lines 142-150, the branch taken when the mode button reads asserted.
\* t1 is time.time() of line 144, t2 is time.time() of line 149.
ModeBranch(tg, pr, pt, t1, t2) ==
    LET fresh == ~pr
        pr1 == IF fresh THEN TRUE ELSE pr
        pt1 == IF fresh THEN t1 ELSE pt
        tg1 == IF fresh THEN (tg + 2) % END_EFF_DIM ELSE tg
    IN  [toggle |-> tg1,
         pressed |-> IF t2 - pt1 > DebounceWindow THEN FALSE ELSE pr1,
         pressed_time |-> pt1]

\* LoopBody with the fault of a command send swallowed inside the loop, which
\* then goes on to its next cycle.
LoopBodySendFaultInside(a, stop, z, t1, t2, fault) ==
    LET keep == [toggle |-> toggle, pressed |-> pressed,
                 pressed_time |-> pressed_time, sent |-> sent]
    IN  IF fault = "recv"
        THEN keep @@ [tpc |-> "done", exit |-> "fault"]
        ELSE IF stop
        THEN keep @@ [tpc |-> "done", exit |-> "stop"]
        ELSE IF a
        THEN ModeBranch(toggle, pressed, pressed_time, t1, t2)
                @@ [sent |-> sent, tpc |-> "run", exit |-> "none"]
        ELSE IF fault = "send"
        THEN keep @@ [tpc |-> "run", exit |-> "none"]
        ELSE [keep EXCEPT !.sent = Append(sent, Twist(toggle, z))]
                @@ [tpc |-> "run", exit |-> "none"]

\* LoopBody with the mode button examined before the stop button.
LoopBodyModeFirst(a, stop, z, t1, t2, fault) ==
    LET keep == [toggle |-> toggle, pressed |-> pressed,
                 pressed_time |-> pressed_time, sent |-> sent]
    IN  IF fault = "recv"
        THEN keep @@ [tpc |-> "done", exit |-> "fault"]
        ELSE IF a
        THEN ModeBranch(toggle, pressed, pressed_time, t1, t2)
                @@ [sent |-> sent, tpc |-> IF stop THEN "done" ELSE "run",
                    exit |-> IF stop THEN "stop" ELSE "none"]
        ELSE IF stop
        THEN keep @@ [tpc |-> "done", exit |-> "stop"]
        ELSE IF fault = "send"
        THEN keep @@ [tpc |-> "done", exit |-> "fault"]
        ELSE [keep EXCEPT !.sent = Append(sent, Twist(toggle, z))]
                @@ [tpc |-> "run", exit |-> "none"]

\* lines 129-167, one pass of the while loop. fault names the call that raises
\* (ConnectionResetError, BrokenPipeError or KeyboardInterrupt), if any.
LoopBody(a, stop, z, t1, t2, fault) ==
    LET keep == [toggle |-> toggle, pressed |-> pressed,
                 pressed_time |-> pressed_time, sent |-> sent]
    IN  IF fault = "recv"
        THEN keep @@ [tpc |-> "done", exit |-> "fault"]
        ELSE IF stop
        THEN keep @@ [tpc |-> "done", exit |-> "stop"]
        ELSE IF a
        THEN ModeBranch(toggle, pressed, pressed_time, t1, t2)
                @@ [sent |-> sent, tpc |-> "run", exit |-> "none"]
        ELSE IF fault = "send"
        THEN keep @@ [tpc |-> "done", exit |-> "fault"]
        ELSE [keep EXCEPT !.sent = Append(sent, Twist(toggle, z))]
                @@ [tpc |-> "run", exit |-> "none"]

NoCycle ==
    [polled |-> FALSE, a |-> FALSE, stop |-> FALSE, fault |-> "none",
     pressed0 |-> FALSE, toggle0 |-> 0, len0 |-> 0]

TeleInit ==
    /\ now = 0
    /\ aBtn = FALSE
    /\ stopBtn = FALSE
    /\ toggle = 0
    /\ pressed = FALSE
    /\ pressed_time = NoTime
    /\ sent = <<>>
    /\ tpc = "run"
    /\ exit = "none"
    \* line 124: conn = connect2robot(8080)
    /\ tconn = "open"
    \* model history
    /\ last = NoCycle
    /\ nEdges = 0
    /\ edgeTime = 0
    /\ spaced = TRUE
    /\ seen = FALSE
    /\ seenAll = TRUE

TeleIdle ==
    /\ now = 0
    /\ aBtn = FALSE
    /\ stopBtn = FALSE
    /\ toggle = 0
    /\ pressed = FALSE
    /\ pressed_time = NoTime
    /\ sent = <<>>
    /\ tpc = "off"
    /\ exit = "none"
    /\ tconn = "closed"
    /\ last = NoCycle
    /\ nEdges = 0
    /\ edgeTime = 0
    /\ spaced = TRUE
    /\ seen = FALSE
    /\ seenAll = TRUE

\* One pass of the loop: get_state, joystick.input, then the branch.
Cycle(z, gap, fault) ==
    /\ tpc = "run"
    /\ now + gap <= MaxTime
    /\ (~aBtn /\ ~stopBtn /\ fault = "none") => Len(sent) < MaxSent
    /\ LET r == LoopBody(aBtn, stopBtn, z, now, now + gap, fault)
           polled == fault # "recv"
       IN  /\ toggle' = r.toggle
           /\ pressed' = r.pressed
           /\ pressed_time' = r.pressed_time
           /\ sent' = r.sent
           /\ tpc' = r.tpc
           /\ exit' = r.exit
           /\ now' = IF polled /\ ~stopBtn /\ aBtn THEN now + gap ELSE now
           /\ last' = [polled |-> polled, a |-> polled /\ aBtn,
                       stop |-> polled /\ stopBtn, fault |-> fault,
                       pressed0 |-> pressed, toggle0 |-> toggle,
                       len0 |-> Len(sent)]
           /\ seen' = (seen \/ (polled /\ aBtn))
    \* no path of main closes conn: teleoperate.py holds no conn.close()
    /\ UNCHANGED tconn
    /\ UNCHANGED <<aBtn, stopBtn, nEdges, edgeTime, spaced, seenAll>>
    /\ UNCHANGED notTele

\* The operator presses the mode button.
PressA ==
    /\ ~aBtn
    /\ nEdges < MaxEdges
    /\ aBtn' = TRUE
    /\ nEdges' = nEdges + 1
    /\ edgeTime' = now
    /\ spaced' = (spaced /\ (nEdges = 0 \/ now - edgeTime >= DebounceWindow))
    /\ seen' = FALSE
    /\ UNCHANGED <<now, stopBtn, toggle, pressed, pressed_time, sent, tpc,
                   exit, tconn, last, seenAll>>
    /\ UNCHANGED notTele

\* The operator releases the mode button.
ReleaseA ==
    /\ aBtn
    /\ aBtn' = FALSE
    /\ seenAll' = (seenAll /\ seen)
    /\ UNCHANGED <<now, stopBtn, toggle, pressed, pressed_time, sent, tpc,
                   exit, tconn, last, nEdges, edgeTime, spaced, seen>>
    /\ UNCHANGED notTele

\* The operator presses the stop button.
PressStop ==
    /\ ~stopBtn
    /\ stopBtn' = TRUE
    /\ UNCHANGED <<now, aBtn, toggle, pressed, pressed_time, sent, tpc,
                   exit, tconn, last, nEdges, edgeTime, spaced, seen, seenAll>>
    /\ UNCHANGED notTele

\* 50 ms pass.
Tick ==
    /\ now < MaxTime
    /\ now' = now + 1
    /\ UNCHANGED <<aBtn, stopBtn, toggle, pressed, pressed_time, sent, tpc,
                   exit, tconn, last, nEdges, edgeTime, spaced, seen, seenAll>>
    /\ UNCHANGED notTele

TeleNext ==
    \/ \E z \in ZVals, gap \in 0..MaxGap, fault \in {"none", "recv", "send"} :
          Cycle(z, gap, fault)
    \/ PressA
    \/ ReleaseA
    \/ PressStop
    \/ Tick

(***************************************************************************)
(* listen2robot (teleoperate.py 78-101, replay.py 63-86, record.py 57-74). *)
(* A buffer is a sequence of one-character strings.  The decoders of the   *)
(* three files differ only in state_length (21 or 63) and in how the       *)
(* vector is packed into the result, so state_length is a parameter: the   *)
(* model runs it with the short lengths LightLen and FullLen.              *)
(***************************************************************************)
LightLen == 2
FullLen == 3

Digit == <<"0", "1", "2", "3", "4", "5", "6", "7", "8", "9">>

DigitChars == {Digit[i] : i \in 1..10}

DigitVal(c) == (CHOOSE i \in 1..10 : Digit[i] = c) - 1

\* str(b) of a bytes object of printable ASCII without quotes: b'...'
BytesRepr(b) == <<"b", "'">> \o b \o <<"'">>

\* s[2:-2]
Slice2(s) == SubSeq(s, 3, Len(s) - 2)

\* s.split(","): the fields between the commas, empty fields kept
RECURSIVE Split(_)
Split(s) ==
    IF \A i \in 1..Len(s) : s[i] # ","
    THEN <<s>>
    ELSE LET k == CHOOSE i \in 1..Len(s) :
                    s[i] = "," /\ \A j \in 1..(i - 1) : s[j] # ","
         IN  <<SubSeq(s, 1, k - 1)>> \o Split(SubSeq(s, k + 1, Len(s)))

\* float(item) raises ValueError unless item is a number; over the model's
\* alphabet the numbers are the non-empty digit strings
IsFloat(f) == Len(f) > 0 /\ \A i \in 1..Len(f) : f[i] \in DigitChars

RECURSIVE Float(_)
Float(f) ==
    IF Len(f) = 0 THEN 0
    ELSE 10 * Float(SubSeq(f, 1, Len(f) - 1)) + DigitVal(f[Len(f)])

\* the return value None
None == [ok |-> FALSE, state |-> <<>>]

\* fields[lo:hi] of Python, 0-based, hi clamped to the length
PySlice(fields, lo, hi) ==
    SubSeq(fields, lo + 1, IF hi < Len(fields) THEN hi ELSE Len(fields))

\* the for loop of listen2robot: cut after the first field equal to "s"
AfterSentinel(fields, n) ==
    IF \E i \in 1..Len(fields) : fields[i] = <<"s">>
    THEN LET at == (CHOOSE i \in 1..Len(fields) :
                        fields[i] = <<"s">> /\
                        \A j \in 1..(i - 1) : fields[j] # <<"s">>) - 1
         IN  PySlice(fields, at + 1, at + 1 + n)
    ELSE fields

\* listen2robot(conn) applied to the bytes b that conn.recv returned
listen2robot(b, n) ==
    LET state_message == Slice2(BytesRepr(b))
        state_str == AfterSentinel(Split(state_message), n)
    IN  IF /\ \A i \in 1..Len(state_str) : IsFloat(state_str[i])
           /\ Len(state_str) = n
        THEN [ok |-> TRUE, state |-> [i \in 1..n |-> Float(state_str[i])]]
        ELSE None

\* the bytes a recv may return in the model of one buffer
Alphabet == {"s", ",", "1", "x"}

\* every buffer of at most n bytes
Buffers(n) == UNION {[1..k -> Alphabet] : k \in 0..n}

\* conn.recv has returned buf (line 81); the decode is still to run
DecInit ==
    /\ state_length \in {LightLen, FullLen}
    /\ buf \in Buffers(MaxBuf)
    /\ res = None
    /\ dpc = "parse"

DecIdle ==
    /\ state_length = 0
    /\ buf = <<>>
    /\ res = None
    /\ dpc = "off"

\* listen2robot runs on the received bytes and returns
Parse ==
    /\ dpc = "parse"
    /\ res' = listen2robot(buf, state_length)
    /\ dpc' = "done"
    /\ UNCHANGED <<state_length, buf>>
    /\ UNCHANGED notDec

DecNext == Parse

(***************************************************************************)
(* get_state (teleoperate.py 104-110, replay.py 89-95, record.py 77-83)    *)
(* reading a stream of telemetry frames.  The controller sends frame k as  *)
(* "s," then its StreamLen numbers, each followed by a comma; TCP hands    *)
(* the stream to the recv calls in pieces of any size.                     *)
(***************************************************************************)
StreamLen == 2

\* the numbers of frame k
Payload(k) == [i \in 1..StreamLen |-> 10 * i + k]

\* a number below 100 as the controller prints it
Digits(v) ==
    IF v < 10 THEN <<Digit[v + 1]>>
    ELSE <<Digit[(v \div 10) + 1], Digit[(v % 10) + 1]>>

RECURSIVE FieldChars(_, _)
FieldChars(p, i) ==
    IF i > Len(p) THEN <<>>
    ELSE Digits(p[i]) \o <<",">> \o FieldChars(p, i + 1)

\* frame k on the wire
Frame(k) == <<"s", ",">> \o FieldChars(Payload(k), 1)

RECURSIVE Stream(_)
Stream(k) == IF k = 0 THEN <<>> ELSE Stream(k - 1) \o Frame(k)

FrameLen == Len(Frame(1))

\* conn.recv(2048) returns at most this many bytes: room for MaxFrames frames
RecvMax == MaxFrames * FrameLen

StrInit ==
    /\ wire = Stream(MaxFrames)
    /\ pos = 0
    /\ gpc = "idle"
    /\ callPos = 0
    /\ got = <<>>
    /\ peer = "open"
    /\ eof = FALSE

StrIdle ==
    /\ wire = <<>>
    /\ pos = 0
    /\ gpc = "off"
    /\ callPos = 0
    /\ got = <<>>
    /\ peer = "open"
    /\ eof = FALSE

\* a caller enters get_state
GetStateCall ==
    /\ gpc = "idle"
    /\ gpc' = "read"
    /\ callPos' = pos
    /\ UNCHANGED <<wire, pos, got, peer, eof>>
    /\ UNCHANGED notStr

\* one pass of the while loop of get_state: listen2robot reads k bytes
GetStateRead(k) ==
    /\ gpc = "read"
    /\ k <= Len(wire)
    /\ k <= RecvMax
    /\ LET state == listen2robot(SubSeq(wire, 1, k), StreamLen)
       IN  /\ wire' = SubSeq(wire, k + 1, Len(wire))
           /\ pos' = pos + k
           /\ IF state # None
              THEN /\ got' = Append(got, [callPos |-> callPos,
                                          from |-> pos, to |-> pos + k,
                                          state |-> state.state])
                   /\ gpc' = "idle"
              ELSE UNCHANGED <<got, gpc>>
    /\ UNCHANGED <<callPos, peer, eof>>
    /\ UNCHANGED notStr

\* the controller closes its end of the connection in an orderly way; what
\* it has sent stays readable
PeerClose ==
    /\ peer = "open"
    /\ peer' = "closed"
    /\ UNCHANGED <<wire, pos, gpc, callPos, got, eof>>
    /\ UNCHANGED notStr

\* GetStateEof with the empty buffer taken as the end of the stream.
GetStateEofReturns ==
    /\ gpc = "read"
    /\ peer = "closed"
    /\ wire = <<>>
    /\ eof' = TRUE
    /\ gpc' = "idle"
    /\ UNCHANGED <<wire, pos, callPos, got, peer>>
    /\ UNCHANGED notStr

\* one pass of the while loop of get_state once the peer has closed and the
\* stream is read to its end: conn.recv returns b"" at once
GetStateEof ==
    /\ gpc = "read"
    /\ peer = "closed"
    /\ wire = <<>>
    /\ eof' = TRUE
    /\ LET state == listen2robot(<<>>, StreamLen)
       IN  IF state # None
           THEN /\ got' = Append(got, [callPos |-> callPos, from |-> pos,
                                       to |-> pos, state |-> state.state])
                /\ gpc' = "idle"
           ELSE UNCHANGED <<got, gpc>>
    /\ UNCHANGED <<wire, pos, callPos, peer>>
    /\ UNCHANGED notStr

StrNext ==
    \/ GetStateCall
    \/ \E k \in 1..RecvMax : GetStateRead(k)
    \/ PeerClose
    \/ GetStateEof

(***************************************************************************)
(* replay.py: send2robot (52-60) and replay (98-149).  A recorded state is *)
(* a numpy array: its ndim and its flat data.  Velocities are in units of  *)
(* 0.5 rad/s, so the limit 1.5 of send2robot is 3.                         *)
(***************************************************************************)
STEP_TIME == 2
EFFECTIVE_HERTZ == 30
NumJoints == 7
StateSize == 21
Limit == 3

\* args.mode (line 33): any string; "no-sleep" is the default and "cubic" the
\* third mode its comment names
Modes == {"naive", "staggered", "no-sleep", "cubic"}

\* a well-formed recorded state: q, dq and tau, the seven dq equal to v
StateData(n, v) ==
    [i \in 1..n |-> IF i <= NumJoints THEN 10 + v
                    ELSE IF i <= 2 * NumJoints THEN v ELSE 20 + v]

\* the recorded states the model replays
StateDomain ==
    {[ndim |-> 1, data |-> StateData(StateSize, 1)],
     [ndim |-> 1, data |-> StateData(StateSize, 2)],
     [ndim |-> 1, data |-> StateData(StateSize - 1, 1)],
     [ndim |-> 2, data |-> StateData(StateSize, 1)]}

StepDomain == [state : StateDomain, elapsed : {1, 2, 3}]

Demonstrations == UNION {[1..k -> StepDomain] : k \in 0..MaxSteps}

RECURSIVE SumSq(_, _)
SumSq(v, i) == IF i > Len(v) THEN 0 ELSE v[i] * v[i] + SumSq(v, i + 1)

RECURSIVE Pow10(_)
Pow10(n) == IF n = 0 THEN 1 ELSE 10 * Pow10(n - 1)

\* array2string(precision=5) writes multiples of 10^-5; the model writes
\* multiples of 10^-Decimals.  One velocity unit (0.5 rad/s) is this many of
\* them.
QuantaPerUnit == 5 * Pow10(Decimals - 1)

\* A real vector is held exactly as num / sqrt(den2).
\* lines 55-57 with the loop of line 57 running over range(6).
ClampFirstSix(qdot) ==
    LET norm2 == SumSq(qdot, 1)
    IN  IF norm2 > Limit * Limit
        THEN [num |-> [i \in 1..NumJoints |->
                         IF i < NumJoints THEN qdot[i] * Limit ELSE qdot[i]],
              den2 |-> norm2]
        ELSE [num |-> qdot, den2 |-> 1]

\* lines 55-57: scale = norm(qdot); if scale > limit, every one of the 7
\* entries becomes qdot[i] * limit / scale
Clamp(qdot) ==
    LET norm2 == SumSq(qdot, 1)
    IN  IF norm2 > Limit * Limit
        THEN [num |-> [i \in 1..NumJoints |-> qdot[i] * Limit], den2 |-> norm2]
        ELSE [num |-> qdot, den2 |-> 1]

\* the integer nearest to n / sqrt(d2), for n >= 0 (a tie goes up)
RoundPos(n, d2) ==
    CHOOSE r \in 0..n :
        /\ r = 0 \/ (2 * r - 1) * (2 * r - 1) * d2 <= 4 * n * n
        /\ 4 * n * n < (2 * r + 1) * (2 * r + 1) * d2

Round(n, d2) == IF n < 0 THEN 0 - RoundPos(0 - n, d2) ELSE RoundPos(n, d2)

\* line 58: array2string writes every entry rounded to the last decimal; the
\* result is in units of that decimal
Format(c) == [i \in 1..Len(c.num) |-> Round(c.num[i] * QuantaPerUnit, c.den2)]

\* send2robot: one conn.send.  scaled tells whether the norm was over the
\* limit, clamped is the vector after lines 55-57 and wire the numbers of the
\* message written.
send2robot(qdot) ==
    [op |-> "send", qdot |-> qdot, scaled |-> SumSq(qdot, 1) > Limit * Limit,
     clamped |-> Clamp(qdot), wire |-> Format(Clamp(qdot))]

\* the joint velocities a caller may pass, in units of 0.5 rad/s
QdotDomain == [1..NumJoints -> (0 - 1)..MaxSpeed]

NoSend == [op |-> "none"]

SndInit ==
    /\ sq \in QdotDomain
    /\ sout = NoSend
    /\ spc = "call"

SndIdle ==
    /\ sq = <<>>
    /\ sout = NoSend
    /\ spc = "off"

\* one call of send2robot
Send ==
    /\ spc = "call"
    /\ sout' = send2robot(sq)
    /\ spc' = "sent"
    /\ UNCHANGED sq
    /\ UNCHANGED notSnd

SndNext == Send

RECURSIVE Repeat(_, _)
Repeat(e, n) == IF n = 0 THEN <<>> ELSE <<e>> \o Repeat(e, n - 1)

\* line 130 taking the positions instead: state[0:7]
VelocityFromPositions(state) == SubSeq(state.data, 1, NumJoints)

\* line 130: qdot = state[7:14]
Velocity(state) == SubSeq(state.data, NumJoints + 1, 2 * NumJoints)

\* lines 138-144 with the sleep after the commands
StaggeredSleepLast(qdot, elapsed) ==
    Repeat(send2robot(qdot), EFFECTIVE_HERTZ)
        \o <<[op |-> "sleep", t |-> elapsed]>>

\* lines 138-144: time.sleep(elapsed), then EFFECTIVE_HERTZ sends
Staggered(qdot, elapsed) ==
    <<[op |-> "sleep", t |-> elapsed]>>
        \o Repeat(send2robot(qdot), EFFECTIVE_HERTZ)

\* lines 132-144 with a final else that sends as the naive policy does.
DispatchElseNaive(m, qdot, elapsed) ==
    IF m = "staggered" THEN Staggered(qdot, elapsed)
    ELSE <<send2robot(qdot)>>

\* lines 132-144: the dispatch on args.mode
Dispatch(m, qdot, elapsed) ==
    IF m = "naive" THEN <<send2robot(qdot)>>
    ELSE IF m = "staggered" THEN Staggered(qdot, elapsed)
    ELSE <<>>

\* lines 119 and 123: the two asserts
StepValid(step) ==
    /\ step.elapsed >= STEP_TIME
    /\ step.state.ndim = 1 /\ Len(step.state.data) = StateSize

\* the loop body with the asserts after the telemetry read and the dispatch
ReplayBodyLateAsserts(step, m, fault) ==
    IF fault = "recv"
    THEN [outcome |-> "crashed", events |-> <<>>]
    ELSE IF fault = "send" /\ m \in {"naive", "staggered"}
    THEN [outcome |-> "crashed",
          events |-> <<[op |-> "read"]>> \o
                     (IF m = "staggered"
                      THEN <<[op |-> "sleep", t |-> step.elapsed]>> ELSE <<>>)]
    ELSE [outcome |-> IF StepValid(step) THEN "ok" ELSE "aborted",
          events |-> <<[op |-> "read"]>>
                        \o Dispatch(m, Velocity(step.state), step.elapsed)]

\* lines 115-146, one pass of the for loop over one step.  fault names the
\* call that raises a connection error, if any: nothing in replay catches it.
ReplayBody(step, m, fault) ==
    IF ~StepValid(step)
    THEN [outcome |-> "aborted", events |-> <<>>]
    ELSE IF fault = "recv"
    THEN [outcome |-> "crashed", events |-> <<>>]
    ELSE IF fault = "send" /\ m \in {"naive", "staggered"}
    THEN [outcome |-> "crashed",
          events |-> <<[op |-> "read"]>> \o
                     (IF m = "staggered"
                      THEN <<[op |-> "sleep", t |-> step.elapsed]>> ELSE <<>>)]
    ELSE [outcome |-> "ok",
          events |-> <<[op |-> "read"]>>
                        \o Dispatch(m, Velocity(step.state), step.elapsed)]

\* lines 101-114: arguments parsed, connected, the demonstration loaded
RepInit ==
    /\ states \in Demonstrations
    /\ mode \in Modes
    /\ idx = 0
    /\ rlog = <<>>
    /\ rconn = "open"
    /\ rpc = "loop"

RepIdle ==
    /\ states = <<>>
    /\ mode = "off"
    /\ idx = 0
    /\ rlog = <<>>
    /\ rconn = "closed"
    /\ rpc = "off"

\* one pass of the for loop
ReplayStep(fault) ==
    /\ rpc = "loop"
    /\ idx < Len(states)
    /\ LET r == ReplayBody(states[idx + 1], mode, fault)
       IN  /\ rlog' = rlog \o r.events
           /\ idx' = IF r.outcome = "ok" THEN idx + 1 ELSE idx
           /\ rpc' = IF r.outcome = "ok" THEN "loop" ELSE r.outcome
    /\ UNCHANGED <<states, mode, rconn>>
    /\ UNCHANGED notRep

\* lines 148-149: the loop is over, conn.close()
ReplayFinish ==
    /\ rpc = "loop"
    /\ idx = Len(states)
    /\ rconn' = "closed"
    /\ rpc' = "done"
    /\ UNCHANGED <<states, mode, idx, rlog>>
    /\ UNCHANGED notRep

RepNext ==
    \/ \E fault \in {"none", "recv", "send"} : ReplayStep(fault)
    \/ ReplayFinish

(***************************************************************************)
(* record.py, record mode: connect2robot (47-54), get_state (77-83) and    *)
(* the demonstration loop of record (115-204).  The stream mode of record  *)
(* (92-112) only prints telemetry and is not modelled.                     *)
(***************************************************************************)
\* STEP_TIME of record.py (line 27): 0.1 s, in ticks
RecordStepTime == 2

\* state_length of record.py's listen2robot (line 59)
RecordStateLength == 21

\* Joystick.input (lines 124-128): A, B, START, BACK
Inputs == [A : BOOLEAN, B : BOOLEAN, START : BOOLEAN, BACK : BOOLEAN]

NoInput == [A |-> FALSE, B |-> FALSE, START |-> FALSE, BACK |-> FALSE]

RECURSIVE Fields(_, _)
Fields(c, n) == IF n = 0 THEN <<>> ELSE <<c, ",">> \o Fields(c, n - 1)

\* a telemetry frame of 21 numbers, all equal to v
RecFrame(v) == <<"s", ",">> \o Fields(Digit[v + 1], RecordStateLength)

\* the first bytes of a frame, cut by TCP
TornFrame == SubSeq(RecFrame(2), 1, 9)

\* what the recv calls of one get_state call return, in order
ReadSeqs == {<<RecFrame(1)>>, <<RecFrame(2)>>, <<TornFrame, RecFrame(1)>>}

\* get_state (77-83): listen2robot on each read in turn until one decodes
RECURSIVE get_state(_, _)
get_state(reads, n) ==
    IF reads = <<>> THEN None
    ELSE LET state == listen2robot(Head(reads), n)
         IN  IF state # None THEN state ELSE get_state(Tail(reads), n)

\* get_state with line 73 of listen2robot, np.asarray(state_vector)[0:21],
\* for each of the read sequences
Telemetry ==
    [r \in ReadSeqs |->
        LET state == get_state(r, RecordStateLength)
        IN  IF state = None THEN None
            ELSE [ok |-> TRUE,
                  state |-> [ndim |-> 1, data |-> PySlice(state.state, 0, 21)]]]

\* line 160 appending on every pass of the inner loop.
DueAlways(curr_time, st) == TRUE

\* line 160: if curr_time - start_time >= STEP_TIME
Due(curr_time, st) == curr_time - st >= RecordStepTime

\* lines 169-170 breaking on the end button as well.
InnerPollStopOrEnd(inp) == inp.B \/ inp.BACK

\* lines 169-170: _, stop, _, _ = joystick.input(); if stop: break
InnerPoll(inp) == inp.B

\* line 175 putting the demo in front.
SealDemoFirst(demos, d) == <<d>> \o demos

\* line 175: demonstrations.append(demo)
SealDemo(demos, d) == Append(demos, d)

\* lines 182-191 with the controller relaunched before the old one is stopped.
ResetStepsSpawnFirst(c, p) ==
    <<[op |-> "close", id |-> c], [op |-> "spawn", id |-> p + 1],
      [op |-> "kill", id |-> p], [op |-> "home", id |-> 0]>>

\* lines 182-191: conn.close(); lf_process.kill(); call(go_JointPosition);
\* lf_process = Popen(read_State)
ResetSteps(c, p) ==
    <<[op |-> "close", id |-> c], [op |-> "kill", id |-> p],
      [op |-> "home", id |-> 0], [op |-> "spawn", id |-> p + 1]>>

\* lines 203-204: lf_process.kill(); conn.close()
EndSteps(c, p) == <<[op |-> "kill", id |-> p], [op |-> "close", id |-> c]>>

\* what a step of record notes about itself
Step(op, inp, c) ==
    [op |-> op, inp |-> inp, conn |-> c, pc0 |-> kpc,
     demos0 |-> demonstrations]

RecInit ==
    /\ kpc = "start"
    /\ clock = 0
    /\ demonstrations = <<>>
    /\ demo = <<>>
    /\ start_time = 0
    /\ conn = [id |-> 0, open |-> FALSE]
    /\ lf_process = [id |-> 0, alive |-> FALSE]
    /\ listening = FALSE
    /\ ctrl = "none"
    /\ store = <<>>
    /\ elog = <<>>
    /\ sealed = <<>>
    /\ klast = [op |-> "none", inp |-> NoInput, conn |-> 0, pc0 |-> "start",
                demos0 |-> <<>>]

RecIdle ==
    /\ kpc = "off"
    /\ clock = 0
    /\ demonstrations = <<>>
    /\ demo = <<>>
    /\ start_time = 0
    /\ conn = [id |-> 0, open |-> FALSE]
    /\ lf_process = [id |-> 0, alive |-> FALSE]
    /\ listening = FALSE
    /\ ctrl = "none"
    /\ store = <<>>
    /\ elog = <<>>
    /\ sealed = <<>>
    /\ klast = [op |-> "none", inp |-> NoInput, conn |-> 0, pc0 |-> "start",
                demos0 |-> <<>>]

\* line 132: lf_process = Popen(read_State)
RecSpawn ==
    /\ kpc = "start"
    /\ lf_process' = [id |-> lf_process.id + 1, alive |-> TRUE]
    /\ ctrl' = "started"
    /\ elog' = Append(elog, [op |-> "spawn", id |-> lf_process.id + 1])
    /\ kpc' = "spawned"
    /\ klast' = Step("spawn", NoInput, 0)
    /\ UNCHANGED <<clock, demonstrations, demo, start_time, conn, listening,
                   store, sealed>>
    /\ UNCHANGED notRec

\* connect2robot, lines 49-52: socket, setsockopt, bind, listen
RecListen ==
    /\ kpc = "spawned"
    /\ listening' = TRUE
    /\ elog' = Append(elog, [op |-> "listen", id |-> 0])
    /\ kpc' = "accepting"
    /\ klast' = Step("listen", NoInput, 0)
    /\ UNCHANGED <<clock, demonstrations, demo, start_time, conn, lf_process,
                   ctrl, store, sealed>>
    /\ UNCHANGED notRec

\* the controller process connects to the port: it is taken into the backlog
\* of a listening socket and refused when there is none
CtrlConnect ==
    /\ ctrl = "started"
    /\ ctrl' = IF listening THEN "connected" ELSE "refused"
    /\ UNCHANGED <<kpc, clock, demonstrations, demo, start_time, conn,
                   lf_process, listening, store, elog, sealed, klast>>
    /\ UNCHANGED notRec

\* connect2robot, lines 53-54: accept blocks until the controller has
\* connected; on return the listening socket s is dropped and so closed
RecAccept ==
    /\ kpc = "accepting"
    /\ ctrl = "connected"
    /\ conn' = [id |-> conn.id + 1, open |-> TRUE]
    /\ listening' = FALSE
    /\ elog' = Append(elog, [op |-> "accept", id |-> conn.id + 1])
    /\ kpc' = "outer"
    /\ klast' = Step("accept", NoInput, 0)
    /\ UNCHANGED <<clock, demonstrations, demo, start_time, lf_process, ctrl,
                   store, sealed>>
    /\ UNCHANGED notRec

\* one pass of the outer loop (lines 139-192); on end, also lines 195-204
RecOuter(inp) ==
    /\ kpc = "outer"
    /\ (~inp.BACK /\ inp.A) => Len(demonstrations) < MaxDemos
    /\ (~inp.BACK /\ ~inp.A /\ inp.START) => conn.id <= MaxResets
    /\ klast' = Step("outer", inp, 0)
    /\ IF inp.BACK
       THEN /\ store' = Append(store, demonstrations)
            /\ lf_process' = [lf_process EXCEPT !.alive = FALSE]
            /\ conn' = [conn EXCEPT !.open = FALSE]
            /\ ctrl' = "none"
            /\ elog' = elog \o EndSteps(conn.id, lf_process.id)
            /\ kpc' = "done"
            /\ UNCHANGED <<demo, start_time>>
       ELSE IF inp.A
       THEN /\ demo' = <<>>
            /\ start_time' = clock
            /\ kpc' = "recording"
            /\ UNCHANGED <<store, lf_process, conn, ctrl, elog>>
       ELSE IF inp.START
       THEN /\ conn' = [conn EXCEPT !.open = FALSE]
            /\ lf_process' = [id |-> lf_process.id + 1, alive |-> TRUE]
            /\ ctrl' = "started"
            /\ elog' = elog \o ResetSteps(conn.id, lf_process.id)
            /\ kpc' = "spawned"
            /\ UNCHANGED <<store, demo, start_time>>
       ELSE UNCHANGED <<store, lf_process, conn, ctrl, elog, kpc, demo,
                        start_time>>
    /\ UNCHANGED <<clock, demonstrations, listening, sealed>>
    /\ UNCHANGED notRec

\* one pass of the inner loop (lines 154-172); when it breaks, also line 175.
\* get_state takes d1 ticks, lines 160-166 take d2.
RecSample(reads, inp, d1, d2) ==
    /\ kpc = "recording"
    /\ Telemetry[reads] # None
    /\ clock + d1 + d2 <= MaxRecTime
    /\ LET state == Telemetry[reads].state
           curr_time == clock + d1
           due == Due(curr_time, start_time)
           demo1 == IF due
                    THEN Append(demo, [state |-> state,
                                       elapsed |-> curr_time - start_time])
                    ELSE demo
       IN  /\ demo' = demo1
           /\ start_time' = IF due THEN curr_time + d2 ELSE start_time
           /\ clock' = IF due THEN curr_time + d2 ELSE curr_time
           /\ IF InnerPoll(inp)
              THEN /\ demonstrations' = SealDemo(demonstrations, demo1)
                   /\ sealed' = Append(sealed, demo1)
                   /\ kpc' = "outer"
              ELSE UNCHANGED <<demonstrations, sealed, kpc>>
    /\ klast' = Step("sample", inp, conn.id)
    /\ UNCHANGED <<conn, lf_process, listening, ctrl, store, elog>>
    /\ UNCHANGED notRec

\* an exception nothing in record catches: KeyboardInterrupt at any point,
\* ConnectionResetError out of the recv of get_state
RecFault(kind) ==
    /\ kpc \in {"start", "spawned", "accepting", "outer", "recording"}
    /\ kind = "fault" => kpc = "recording"
    /\ kpc' = "crashed"
    /\ klast' = Step(kind, NoInput, 0)
    /\ UNCHANGED <<clock, demonstrations, demo, start_time, conn, lf_process,
                   listening, ctrl, store, elog, sealed>>
    /\ UNCHANGED notRec

RecNext ==
    \/ RecSpawn
    \/ RecListen
    \/ CtrlConnect
    \/ RecAccept
    \/ \E inp \in Inputs : RecOuter(inp)
    \/ \E reads \in ReadSeqs, inp \in Inputs, d1 \in 0..MaxWait,
          d2 \in 0..MaxGap : RecSample(reads, inp, d1, d2)
    \/ \E kind \in {"interrupt", "fault"} : RecFault(kind)

(***************************************************************************)
(* The specifications.                                                     *)
(***************************************************************************)
Init ==
    TeleInit /\ DecIdle /\ StrIdle /\ RepIdle /\ SndIdle /\ RecIdle

Spec == Init /\ [][TeleNext]_vars

InitDecode ==
    DecInit /\ TeleIdle /\ StrIdle /\ RepIdle /\ SndIdle /\ RecIdle

SpecDecode == InitDecode /\ [][DecNext]_vars

InitStream ==
    StrInit /\ TeleIdle /\ DecIdle /\ RepIdle /\ SndIdle /\ RecIdle

SpecStream == InitStream /\ [][StrNext]_vars

InitReplay ==
    RepInit /\ TeleIdle /\ DecIdle /\ StrIdle /\ SndIdle /\ RecIdle

SpecReplay == InitReplay /\ [][RepNext]_vars

InitSend ==
    SndInit /\ TeleIdle /\ DecIdle /\ StrIdle /\ RepIdle /\ RecIdle

SpecSend == InitSend /\ [][SndNext]_vars

InitRecord ==
    RecInit /\ TeleIdle /\ DecIdle /\ StrIdle /\ RepIdle /\ SndIdle

SpecRecord == InitRecord /\ [][RecNext]_vars

(***************************************************************************)
(* Claims about the teleoperation loop (checked under Spec).               *)
(***************************************************************************)

\* C1: from mode offset 0, after N rising edges of the mode button, every one
\* polled by at least one cycle and all of them >= 0.25 s apart, the mode
\* offset is 2*N mod 6, whatever the press durations and the cycle timing.
C1_EdgesAdvanceMode ==
    (tpc = "run" /\ spaced /\ seenAll /\ (aBtn => seen))
        => toggle = (2 * nEdges) % END_EFF_DIM

\* C2: a single continuous press of the mode button, held over any number of
\* cycles and for any duration, advances the mode offset exactly once.
C2_HeldPressAdvancesOnce ==
    (tpc = "run" /\ nEdges = 1 /\ aBtn)
        => toggle = (IF seen THEN 2 ELSE 0)

\* C3: two rising edges of the mode button less than 0.25 s apart (the first
\* press polled by a cycle) advance the mode offset once in total, whatever
\* the duration of the second press.
C3_CloseEdgesAdvanceOnce ==
    (tpc = "run" /\ nEdges = 2 /\ ~spaced /\ aBtn /\ seenAll)
        => toggle = 2

\* C6: the cycle that polls the stop button asserted ends the loop; it sends
\* no command and leaves the mode offset unchanged, also when the mode button
\* is asserted in the same poll, and nothing is sent afterwards.
C6_StopEndsLoop ==
    (last.polled /\ last.stop)
        => /\ tpc = "done"
           /\ exit = "stop"
           /\ toggle = last.toggle0
           /\ Len(sent) = last.len0

\* C6 witness: stop and a fresh mode press polled in the same cycle, after a
\* command had been sent.
C6_Witness ==
    /\ last.polled /\ last.stop /\ last.a /\ ~last.pressed0
    /\ tpc = "done"
    /\ Len(sent) > 0

\* C7 as stated: in a cycle that completes with stop not asserted, a fresh
\* mode press advances the mode and sends nothing; any other cycle sends
\* exactly one command and leaves the mode offset unchanged.
C7_FreshOrSend ==
    (last.polled /\ ~last.stop /\ last.fault = "none")
        => IF last.a /\ ~last.pressed0
           THEN /\ toggle = (last.toggle0 + 2) % END_EFF_DIM
                /\ Len(sent) = last.len0
           ELSE /\ toggle = last.toggle0
                /\ Len(sent) = last.len0 + 1

\* C7 amended: in a cycle that polls stop not asserted, an asserted mode
\* button means no command is sent (and the mode advances exactly when the
\* pressed latch was clear); a released mode button means the mode offset is
\* unchanged and exactly one command is sent, none if the send raises.
C7_AssertedOrSend ==
    (last.polled /\ ~last.stop)
        => IF last.a
           THEN /\ Len(sent) = last.len0
                /\ toggle = (IF last.pressed0 THEN last.toggle0
                             ELSE (last.toggle0 + 2) % END_EFF_DIM)
           ELSE /\ toggle = last.toggle0
                /\ Len(sent) = last.len0 + (IF last.fault = "send" THEN 0 ELSE 1)

\* C7 witness: a cycle polled the mode button held with the latch set, and
\* another sent a command before it.
C7_Witness ==
    /\ last.polled /\ ~last.stop /\ last.a /\ last.pressed0
    /\ tpc = "run"
    /\ Len(sent) = 1


\* the call of the last cycle that raised a connection fault, if any: the
\* telemetry read always runs, the command send only in the else branch
FaultRaised ==
    \/ last.fault = "recv"
    \/ last.fault = "send" /\ last.polled /\ ~last.stop /\ ~last.a

\* C12: a connection fault raised by the telemetry read or by the command
\* send of a cycle is caught at the top level of main: the loop has ended by
\* the fault exit (no unhandled crash), the faulting cycle has sent nothing
\* and changed no mode state, and no command follows the fault.
C12_FaultEndsLoop ==
    FaultRaised
        => /\ tpc = "done"
           /\ exit = "fault"
           /\ Len(sent) = last.len0
           /\ toggle = last.toggle0

\* C12 witness: the command send faults after an earlier command went out.
C12_Witness ==
    /\ last.fault = "send" /\ last.polled /\ ~last.stop /\ ~last.a
    /\ tpc = "done"
    /\ Len(sent) > 0

\* the entries of a twist other than the two at offset tg
OthersZero(tw, tg) ==
    \A i \in 0..(END_EFF_DIM - 1) : (i # tg /\ i # tg + 1) => tw[i] = 0

\* C17: the mode offset is always one of 0, 2, 4, so offset and offset + 1
\* lie inside 0..5; the twist of every command carries the two input axes at
\* the offset of its cycle and zero in the other four entries.
C17_OffsetSelectsAxisPair ==
    /\ toggle \in {0, 2, 4}
    /\ \A i \in 1..Len(sent) :
          /\ DOMAIN sent[i] = 0..(END_EFF_DIM - 1)
          /\ \E tg \in {0, 2, 4} :
                /\ <<sent[i][tg], sent[i][tg + 1]>> \in ZVals
                /\ OthersZero(sent[i], tg)
    /\ (last.polled /\ ~last.stop /\ ~last.a /\ last.fault = "none")
          => /\ last.toggle0 + 1 <= END_EFF_DIM - 1
             /\ OthersZero(sent[Len(sent)], last.toggle0)

\* C17 witness: a command with both axes deflected sent in the third mode.
C17_Witness ==
    /\ last.polled /\ ~last.stop /\ ~last.a /\ last.fault = "none"
    /\ last.toggle0 = 4
    /\ sent[Len(sent)][4] = 1 /\ sent[Len(sent)][5] = 2

(***************************************************************************)
(* Claims about the decoder (SpecDecode) and get_state (SpecStream).       *)
(***************************************************************************)
\* the fields of the received buffer, and those after its first sentinel
BufFields == Split(buf)

HasSentinel == \E i \in 1..Len(BufFields) : BufFields[i] = <<"s">>

Following == AfterSentinel(BufFields, state_length)

\* C4: listen2robot returns a state if and only if the received buffer holds
\* the sentinel field "s" and the N fields right after its first occurrence
\* are all numbers, and the state is then those N numbers; without the
\* sentinel, with fewer than N fields after it or with a non-numeric field
\* among them the result is None.
C4_DecodeIffFramed ==
    dpc = "done" =>
        LET framed == /\ HasSentinel
                      /\ Len(Following) = state_length
                      /\ \A i \in 1..Len(Following) : IsFloat(Following[i])
        IN  /\ (res # None) <=> framed
            /\ (res # None) =>
                   res.state = [i \in 1..state_length |-> Float(Following[i])]

\* the first frame that lies whole in bytes lo..hi-1 of the stream (0 if
\* none does): frame k is bytes (k-1)*FrameLen .. k*FrameLen - 1
FirstWholeFrame(lo, hi) ==
    IF \E k \in 1..MaxFrames : (k - 1) * FrameLen >= lo /\ k * FrameLen <= hi
    THEN CHOOSE k \in 1..MaxFrames :
            /\ (k - 1) * FrameLen >= lo /\ k * FrameLen <= hi
            /\ \A j \in 1..(k - 1) : (j - 1) * FrameLen < lo
    ELSE 0

\* C5: every get_state call returns the first parseable frame on the wire,
\* that is the first frame a read of the call holds whole, however the stream
\* is cut into reads (a torn frame before a whole one included); reads that
\* do not decode are retried and never returned, and the frames come back in
\* the order the controller sent them.
C5_FirstFrameReturned ==
    /\ \A i \in 1..Len(got) :
        /\ got[i].from >= got[i].callPos
        /\ FirstWholeFrame(got[i].from, got[i].to) # 0
        /\ got[i].state = Payload(FirstWholeFrame(got[i].from, got[i].to))
    /\ \A i \in 1..(Len(got) - 1) :
        FirstWholeFrame(got[i].from, got[i].to)
            < FirstWholeFrame(got[i + 1].from, got[i + 1].to)

\* C19: get_state leaves its while loop only with a decoded vector; once the
\* peer has closed and the stream is read to its end, every read returns the
\* empty buffer, which does not decode, so the call stays in its loop for
\* ever: it neither returns nor raises, and its caller never runs again.
C19_NoExitButDecode ==
    [][/\ (gpc = "read" /\ gpc' # "read")
            => /\ gpc' = "idle"
               /\ Len(got') = Len(got) + 1
               /\ Len(got'[Len(got')].state) = StreamLen
       /\ (gpc = "read" /\ peer = "closed" /\ wire = <<>>)
            => (gpc' = "read" /\ got' = got)]_vars

\* C19 witness: a call that has read the empty buffer of the closed peer and
\* is still inside its loop, after an earlier call had returned a vector.
C19_Witness ==
    /\ eof
    /\ gpc = "read"
    /\ peer = "closed" /\ wire = <<>>
    /\ Len(got) > 0

(***************************************************************************)
(* Claims about replay (SpecReplay).                                       *)
(***************************************************************************)
\* the send2robot arguments in a log, in order
RECURSIVE Commands(_)
Commands(log) ==
    IF log = <<>> THEN <<>>
    ELSE (IF Head(log).op = "send" THEN <<Head(log).qdot>> ELSE <<>>)
            \o Commands(Tail(log))

\* the sleeps and sends of a log, in order
RECURSIVE SleepsAndSends(_)
SleepsAndSends(log) ==
    IF log = <<>> THEN <<>>
    ELSE (IF Head(log).op \in {"send", "sleep"}
          THEN <<[op |-> Head(log).op,
                  v |-> IF Head(log).op = "send" THEN Head(log).qdot
                        ELSE <<Head(log).t>>]>>
          ELSE <<>>)
            \o SleepsAndSends(Tail(log))

NumReads == Cardinality({i \in 1..Len(rlog) : rlog[i].op = "read"})

\* components [7:14) of the recorded state of step i
Recorded(i) == [j \in 1..NumJoints |-> states[i].state.data[NumJoints + j]]

\* C8: replaying a valid demonstration of k steps under the naive policy
\* issues exactly k commands, one per step in recorded order, the command of
\* step i carrying components [7:14) of the state of step i.
C8_NaiveOnePerStep ==
    (mode = "naive" /\ rpc \in {"loop", "done"})
        => /\ Commands(rlog) = [i \in 1..idx |-> Recorded(i)]
           /\ rpc = "done" => idx = Len(states)

C8_Witness ==
    /\ mode = "naive" /\ rpc = "done"
    /\ Len(states) >= 2
    /\ Recorded(1) # Recorded(2)
    /\ Len(Commands(rlog)) = Len(states)

\* what the staggered policy is to do for steps 1..n: per step the sleep,
\* then EFFECTIVE_HERTZ copies of the command
RECURSIVE StaggeredPlan(_)
StaggeredPlan(n) ==
    IF n = 0 THEN <<>>
    ELSE StaggeredPlan(n - 1)
            \o <<[op |-> "sleep", v |-> <<states[n].elapsed>>]>>
            \o [j \in 1..30 |-> [op |-> "send", v |-> Recorded(n)]]

\* C9: replaying a valid demonstration of k steps under the staggered policy
\* issues exactly 30*k commands: per step, in order, one sleep of the step's
\* elapsed time and then 30 identical commands of that step's velocity.
C9_StaggeredThirtyPerStep ==
    (mode = "staggered" /\ rpc \in {"loop", "done"})
        => /\ SleepsAndSends(rlog) = StaggeredPlan(idx)
           /\ Len(Commands(rlog)) = 30 * idx
           /\ rpc = "done" => idx = Len(states)

C9_Witness ==
    /\ mode = "staggered" /\ rpc = "done"
    /\ Len(states) >= 2
    /\ states[1].elapsed # states[2].elapsed
    /\ Recorded(1) # Recorded(2)
    /\ Len(Commands(rlog)) = 30 * Len(states)

\* the steps the claim calls invalid: elapsed below 0.1 s, or not 21 scalars
TooShortOrWrongSize(i) ==
    \/ states[i].elapsed < 2
    \/ Len(states[i].state.data) # 21

\* C10: a step with elapsed time below 0.1 s or without exactly 21 scalars
\* aborts the replay: no telemetry is read and no command is sent for it or
\* for any later step, under every policy, and replay never completes.
C10_InvalidStepAborts ==
    \A i \in 1..Len(states) :
        TooShortOrWrongSize(i)
            => /\ idx < i
               /\ NumReads < i
               /\ Len(Commands(rlog)) <= (i - 1) * 30
               /\ (mode = "naive" => Len(Commands(rlog)) <= i - 1)
               /\ rpc # "done"
               /\ (idx = i - 1 /\ rpc # "loop") => rpc \in {"aborted", "crashed"}

C10_Witness ==
    /\ rpc = "aborted"
    /\ idx = 1
    /\ TooShortOrWrongSize(2)
    /\ mode = "staggered"
    /\ NumReads = 1

\* C21: under a mode that is neither "naive" nor "staggered" (the default
\* "no-sleep" included) replay still validates every step, aborting at the
\* first invalid one, and performs exactly one telemetry read per step
\* played, in order, but sends no command and sleeps for no step.
C21_OtherModeReadsNeverSends ==
    (rpc # "off" /\ mode \notin {"naive", "staggered"})
        => /\ rlog = Repeat([op |-> "read"], idx)
           /\ Commands(rlog) = <<>>
           /\ \A i \in 1..idx : StepValid(states[i])
           /\ rpc = "aborted" => ~StepValid(states[idx + 1])
           /\ (rpc = "loop" /\ idx < Len(states) /\ rlog # <<>>)
                 => rlog[Len(rlog)].op = "read"
           /\ rpc = "done" => (idx = Len(states) /\ NumReads = Len(states))

\* C21 witness: a valid demonstration of two steps played to its end under
\* the default mode: two reads, nothing sent.
C21_Witness ==
    /\ mode = "no-sleep"
    /\ rpc = "done"
    /\ Len(states) = 2
    /\ NumReads = 2
    /\ Commands(rlog) = <<>>

(***************************************************************************)
(* Claims about send2robot (SpecSend).                                     *)
(***************************************************************************)

\* the limit in units of the last decimal written
WireLimit == Limit * QuantaPerUnit

\* u and v point the same way
SameDirection(u, v) ==
    /\ \A i, j \in 1..NumJoints : u[i] * v[j] = u[j] * v[i]
    /\ \A i \in 1..NumJoints : u[i] * v[i] >= 0 /\ (u[i] = 0 <=> v[i] = 0)

\* the written number w is within half a unit of the last decimal of the real
\* number n / sqrt(d2), counted in such units
Nearest(w, n, d2) ==
    LET wa == IF n < 0 THEN 0 - w ELSE w
        na == IF n < 0 THEN 0 - n ELSE n
    IN  /\ wa >= 0
        /\ wa = 0 \/ (2 * wa - 1) * (2 * wa - 1) * d2 <= 4 * na * na
        /\ 4 * na * na <= (2 * wa + 1) * (2 * wa + 1) * d2

\* C16 as stated: the vector of every message send2robot writes has norm at
\* most the limit, and a vector within the limit is written unchanged.
C16_WrittenNormWithinLimit ==
    spc = "sent"
        => /\ sout.op = "send"
           /\ SumSq(sout.wire, 1) <= WireLimit * WireLimit
           /\ SumSq(sq, 1) <= Limit * Limit
                => sout.wire = [i \in 1..NumJoints |-> sq[i] * QuantaPerUnit]

\* C16 amended: send2robot never fails on an over-limit vector; the vector it
\* formats has norm at most the limit (an over-limit vector scaled in all 7
\* entries to norm exactly the limit, direction unchanged; a within-limit
\* vector unchanged); every number written is that vector's entry rounded to
\* the last decimal written.
C16_ClampedThenRounded ==
    spc = "sent"
        => LET c == sout.clamped
           IN  /\ sout.op = "send"
               /\ SumSq(c.num, 1) <= Limit * Limit * c.den2
               /\ IF SumSq(sq, 1) > Limit * Limit
                  THEN /\ SumSq(c.num, 1) = Limit * Limit * c.den2
                       /\ SameDirection(c.num, sq)
                  ELSE c.num = sq /\ c.den2 = 1
               /\ \A i \in 1..NumJoints :
                     Nearest(sout.wire[i], c.num[i] * QuantaPerUnit, c.den2)

\* C16 witness: an over-limit vector with a negative and a zero entry whose
\* written numbers have a norm above the limit.
C16_Witness ==
    /\ spc = "sent"
    /\ sout.scaled
    /\ \E i, j \in 1..NumJoints : sq[i] < 0 /\ sq[j] = 0
    /\ SumSq(sout.wire, 1) > WireLimit * WireLimit

(***************************************************************************)
(* Claims about the recorder (SpecRecord).                                 *)
(***************************************************************************)

\* every demonstration the recorder holds: sealed, in progress or stored
AllDemos ==
    {demonstrations[i] : i \in 1..Len(demonstrations)} \cup {demo}
        \cup UNION {{store[j][i] : i \in 1..Len(store[j])} :
                       j \in 1..Len(store)}

\* C13: every step the recorder appends has elapsed >= 0.1 s and a state
\* vector of exactly 21 scalars, so every step of every recorded
\* demonstration passes the two validity checks of replay.
C13_RecordedStepsValid ==
    \A d \in AllDemos : \A i \in 1..Len(d) :
        /\ d[i].elapsed >= RecordStepTime
        /\ Len(d[i].state.data) = 21
        /\ StepValid(d[i])

\* C13 witness: a stored demonstration of two steps, one of them taken after
\* more than the step time and one holding the second telemetry frame.
C13_Witness ==
    /\ kpc = "done"
    /\ \E j \in 1..Len(store[1]) :
          /\ Len(store[1][j]) = 2
          /\ \E i \in 1..2 : store[1][j][i].elapsed > RecordStepTime
          /\ \E i \in 1..2 : store[1][j][i].state.data[1] = 2

\* the step just taken polled stop asserted inside the recording loop
StopTaken == klast.op = "sample" /\ klast.inp.B

\* C14: each stop seals the demonstration in progress and appends it once to
\* the end of the set, and no other step changes the set, so the set always
\* holds exactly the sealed demonstrations in recording order; the set is
\* written to the store exactly once, by the end event, and never before.
C14_SealedInOrderSavedAtEnd ==
    /\ demonstrations = sealed
    /\ IF StopTaken
       THEN demonstrations = Append(klast.demos0, demo)
       ELSE demonstrations = klast.demos0
    /\ store = (IF kpc = "done" THEN <<demonstrations>> ELSE <<>>)
    /\ kpc = "done" => (klast.op = "outer" /\ klast.inp.BACK)

\* C14 witness: two different demonstrations with a reset in between, stored
\* by the end event.
C14_Witness ==
    /\ kpc = "done"
    /\ Len(store) = 1
    /\ Len(store[1]) = 2
    /\ store[1][1] # store[1][2]
    /\ conn.id = 2

\* the accept events of the log
Accepts == {i \in 1..Len(elog) : elog[i].op = "accept"}

\* the step just taken is the reset branch of the outer loop, or the
\* connect2robot that ends it
InReset ==
    \/ klast.op = "outer" /\ ~klast.inp.BACK /\ ~klast.inp.A /\ klast.inp.START
    \/ klast.op \in {"listen", "accept"}

\* C15: a reset closes the current connection, stops the controller process,
\* runs return-to-home, relaunches the controller and accepts a new
\* connection, in this order; every telemetry read uses the connection
\* accepted last, which is open; a reset leaves the set unchanged.
C15_ResetRecyclesTransport ==
    /\ \A i \in 1..Len(elog) :
          elog[i].op = "home"
             => /\ i >= 3 /\ i + 1 <= Len(elog)
                /\ elog[i - 2].op = "close"
                /\ elog[i - 1].op = "kill"
                /\ elog[i + 1] = [op |-> "spawn", id |-> elog[i - 1].id + 1]
                /\ i + 2 <= Len(elog) => elog[i + 2].op = "listen"
                /\ i + 3 <= Len(elog)
                     => elog[i + 3] = [op |-> "accept",
                                       id |-> elog[i - 2].id + 1]
    /\ klast.op = "sample"
          => /\ klast.conn = conn.id
             /\ conn.open
             /\ conn.id = Cardinality(Accepts)
    /\ InReset => demonstrations = klast.demos0

\* C15 witness: a telemetry read on the second connection, with a
\* demonstration sealed before the reset.
C15_Witness ==
    /\ klast.op = "sample"
    /\ klast.conn = 2
    /\ Len(demonstrations) = 1
    /\ \E i \in 1..Len(elog) : elog[i].op = "home"

\* C18: whenever the controller process has been spawned and has not yet
\* connected, a socket is listening, so no connection attempt of the
\* controller is refused.
C18_ListenBeforeSpawn ==
    /\ (lf_process.alive /\ ctrl = "started") => listening
    /\ ctrl # "refused"

\* C20: a pass of the recording loop that polls stop not asserted stays in
\* recording and changes neither the set, the store, the connection nor the
\* controller process, whatever the end and reset buttons read; the loop
\* leaves recording only by the stop poll (an exception ends the process);
\* nothing is stored and the session has not ended while a demonstration is
\* unsealed.
C20_OnlyStopLeavesRecording ==
    /\ (klast.op = "sample" /\ ~klast.inp.B)
          => /\ kpc = "recording"
             /\ demonstrations = klast.demos0
             /\ conn = [id |-> klast.conn, open |-> TRUE]
             /\ lf_process.alive
    /\ (klast.pc0 = "recording" /\ kpc \notin {"recording", "crashed"})
          => /\ klast.op = "sample" /\ klast.inp.B
             /\ kpc = "outer"
    /\ kpc = "recording" => store = <<>>
    /\ (kpc = "done" \/ store # <<>>) => klast.pc0 = "outer"

\* C20 witness: a pass that has appended a step while end and reset were both
\* asserted and stop was not.
C20_Witness ==
    /\ klast.op = "sample"
    /\ klast.inp.BACK /\ klast.inp.START /\ ~klast.inp.B
    /\ kpc = "recording"
    /\ Len(demo) > 0

(***************************************************************************)
(* A claim about all three programs.                                       *)
(***************************************************************************)

\* C11: in every terminal state of the teleoperation loop, of replay and of
\* the recorder the controller connection has been closed.
C11_ClosedOnEveryExit ==
    /\ tpc = "done" => tconn = "closed"
    /\ rpc \in {"done", "aborted", "crashed"} => rconn = "closed"
    /\ kpc \in {"done", "crashed"} => ~conn.open

=============================================================================
